---------------------------- MODULE Spec2Model ----------------------------
(***************************************************************************)
(* A model of src/main.rs: a small git object database with the commands   *)
(* init, cat-file, hash-object, ls-tree, write-tree and commit-tree.       *)
(*                                                                         *)
(* Text and file contents are sequences of bytes (0..255).  A Rust String  *)
(* is the sequence of its UTF-8 bytes, so len() is Len and str comparison  *)
(* is the lexicographic order of the bytes.                                *)
(***************************************************************************)
EXTENDS Integers, Sequences, FiniteSets, TLC

\* ------------------------------------------------------------------ bounds

\* The number of commit objects a behaviour stores.
MaxCommits == 1

\* ------------------------------------------------------- program constants

\* struct GitHash { hash: [u8; 20] }
HashLen == 20

\* GitHash::from_str: s.len() != 40
HexLen == 40

\* BufReader::new: the reader's buffer holds at most 8 KiB of its source.
BufCapacity == 8192

\* ------------------------------------------------------------ byte strings

Byte == 0..255

NUL == <<0>>
SP  == <<32>>
LF  == <<10>>

\* "blob", "tree", "commit"
StrBlob   == <<98, 108, 111, 98>>
StrTree   == <<116, 114, 101, 101>>
StrCommit == <<99, 111, 109, 109, 105, 116>>

\* "40000" and "100644", the modes tree_from_directory gives its entries
ModeDir  == <<52, 48, 48, 48, 48>>
ModeFile == <<49, 48, 48, 54, 52, 52>>

\* ".git"
DotGit == <<46, 103, 105, 116>>

\* "parent", "author", "committer"
StrParent    == <<112, 97, 114, 101, 110, 116>>
StrAuthor    == <<97, 117, 116, 104, 111, 114>>
StrCommitter == <<99, 111, 109, 109, 105, 116, 116, 101, 114>>

\* "Harry Smith", "test@test.org", "+0000"
AuthorName  == <<72, 97, 114, 114, 121, 32, 83, 109, 105, 116, 104>>
AuthorEmail == <<116, 101, 115, 116, 64, 116, 101, 115, 116, 46, 111, 114, 103>>
TimeZone    == <<43, 48, 48, 48, 48>>

Min(a, b) == IF a < b THEN a ELSE b

\* s[from..to) of a Rust slice, 0-based, as a sequence
Slice(s, from, to) == SubSeq(s, from + 1, to)

\* The operators over byte strings are written without recursion along the
\* string, or with a recursion that halves it.

\* the values of a function on 1..n, as a sequence whose elements are
\* computed once
Collect(f) == f \o <<>>

\* the least element of a non-empty set of numbers
Least(S) == CHOOSE i \in S : \A j \in S : i <= j

\* the sum of f[lo..hi]
RECURSIVE SumRange(_, _, _)
SumRange(f, lo, hi) ==
    IF lo > hi THEN 0
    ELSE IF lo = hi THEN f[lo]
    ELSE LET mid == (lo + hi) \div 2
         IN  SumRange(f, lo, mid) + SumRange(f, mid + 1, hi)

\* the concatenation of the sequences ss[lo..hi]
RECURSIVE ConcatRange(_, _, _)
ConcatRange(ss, lo, hi) ==
    IF lo > hi THEN <<>>
    ELSE IF lo = hi THEN ss[lo]
    ELSE LET mid == (lo + hi) \div 2
         IN  ConcatRange(ss, lo, mid) \o ConcatRange(ss, mid + 1, hi)

Concat(ss) == ConcatRange(ss, 1, Len(ss))

\* the elements of a set of numbers in ascending order
Ascending(S) ==
    Collect([k \in 1..Cardinality(S) |->
        CHOOSE i \in S : Cardinality({j \in S : j < i}) = k - 1])

\* a < b on str and [u8]: the lexicographic order of the bytes
BytesLess(a, b) ==
    LET n == Min(Len(a), Len(b))
        differ == {i \in 1..n : a[i] /= b[i]}
    IN  IF differ = {} THEN Len(a) < Len(b)
        ELSE a[Least(differ)] < b[Least(differ)]

\* format!("{}", n) for an unsigned n
RECURSIVE DecBytes(_)
DecBytes(n) ==
    IF n < 10 THEN <<48 + n>> ELSE DecBytes(n \div 10) \o <<48 + (n % 10)>>

\* the index (1-based) of the first byte b of s at or after position from,
\* 0 when there is none
IndexOf(s, b, from) ==
    LET hits == {i \in from..Len(s) : s[i] = b}
    IN  IF hits = {} THEN 0 ELSE Least(hits)

\* str::split(c) for a one-byte character c: the pieces between the
\* occurrences of c (always at least one piece)
Split(s, b) ==
    LET cuts == Ascending({i \in 1..Len(s) : s[i] = b})
        n == Len(cuts)
    IN  Collect([k \in 1..(n + 1) |->
            SubSeq(s, IF k = 1 THEN 1 ELSE cuts[k - 1] + 1,
                      IF k = n + 1 THEN Len(s) ELSE cuts[k] - 1)])

\* str::split_once(' '): None, or the text before and after the first space
SplitOnce(s, b) ==
    LET i == IndexOf(s, b, 1)
    IN  IF i = 0 THEN [some |-> FALSE, left |-> <<>>, right |-> <<>>]
        ELSE [some |-> TRUE, left |-> SubSeq(s, 1, i - 1),
              right |-> SubSeq(s, i + 1, Len(s))]

\* str::trim_end_matches('\0')
TrimEndNul(s) ==
    LET keep == {i \in 1..Len(s) : s[i] /= 0}
    IN  IF keep = {} THEN <<>>
        ELSE SubSeq(s, 1, CHOOSE i \in keep : \A j \in keep : j <= i)

\* usize::from_str: an optional '+', then one or more decimal digits
RECURSIVE DigitsValue(_, _)
DigitsValue(s, acc) ==
    IF s = <<>> THEN acc
    ELSE DigitsValue(Tail(s), acc * 10 + (s[1] - 48))

ParseUsize(s) ==
    LET digits == IF s /= <<>> /\ s[1] = 43 THEN Tail(s) ELSE s
    IN  IF digits = <<>> \/ Len(digits) > 8
           \/ \E i \in 1..Len(digits) : digits[i] < 48 \/ digits[i] > 57
        THEN [ok |-> FALSE, value |-> 0]
        ELSE [ok |-> TRUE, value |-> DigitsValue(digits, 0)]

\* ------------------------------------------------------------------- UTF-8

IsCont(b) == b >= 128 /\ b <= 191

\* core::str::utf8_char_width
Utf8CharWidth(b) ==
    IF b < 128 THEN 1
    ELSE IF b >= 194 /\ b <= 223 THEN 2
    ELSE IF b >= 224 /\ b <= 239 THEN 3
    ELSE IF b >= 240 /\ b <= 244 THEN 4
    ELSE 0

\* the byte at 1-based position i, 0 past the end (safe_get)
SafeGet(s, i) == IF i <= Len(s) THEN s[i] ELSE 0

\* whether the second byte of a 3- or 4-byte sequence is in the range its
\* first byte allows
SecondOk(first, second) ==
    \/ first = 224 /\ second >= 160 /\ second <= 191
    \/ first >= 225 /\ first <= 236 /\ IsCont(second)
    \/ first = 237 /\ second >= 128 /\ second <= 159
    \/ first >= 238 /\ first <= 239 /\ IsCont(second)
    \/ first = 240 /\ second >= 144 /\ second <= 191
    \/ first >= 241 /\ first <= 243 /\ IsCont(second)
    \/ first = 244 /\ second >= 128 /\ second <= 143

\* The chunk of s that starts at position i: [valid, len], a well-formed
\* character of len bytes, or the maximal ill-formed prefix of len bytes.
Utf8Chunk(s, i) ==
    LET b == s[i]
        w == Utf8CharWidth(b)
    IN  IF w = 1 THEN [valid |-> TRUE, len |-> 1]
        ELSE IF w = 0 THEN [valid |-> FALSE, len |-> 1]
        ELSE IF w = 2 THEN
            IF IsCont(SafeGet(s, i + 1)) THEN [valid |-> TRUE, len |-> 2]
            ELSE [valid |-> FALSE, len |-> 1]
        ELSE IF ~SecondOk(b, SafeGet(s, i + 1)) THEN [valid |-> FALSE, len |-> 1]
        ELSE IF ~IsCont(SafeGet(s, i + 2)) THEN [valid |-> FALSE, len |-> 2]
        ELSE IF w = 3 THEN [valid |-> TRUE, len |-> 3]
        ELSE IF ~IsCont(SafeGet(s, i + 3)) THEN [valid |-> FALSE, len |-> 3]
        ELSE [valid |-> TRUE, len |-> 4]

\* U+FFFD REPLACEMENT CHARACTER in UTF-8
Replacement == <<239, 191, 189>>

\* Whether the decoder, reading s from its start, takes the byte at i as
\* a later byte of the chunk that an earlier byte starts.  A chunk starts
\* at every byte outside 0x80..0xBF, and takes only bytes inside it.
Absorbed(s, i) ==
    /\ IsCont(s[i])
    /\ \E d \in 1..3 :
        /\ i - d >= 1
        /\ ~IsCont(s[i - d])
        /\ \A e \in 1..(d - 1) : IsCont(s[i - e])
        /\ d < Utf8Chunk(s, i - d).len

\* String::from_utf8_lossy: every maximal ill-formed sequence becomes U+FFFD
FromUtf8Lossy(s) ==
    Concat(Collect([i \in 1..Len(s) |->
        IF Absorbed(s, i) THEN <<>>
        ELSE LET c == Utf8Chunk(s, i)
             IN  IF c.valid THEN SubSeq(s, i, i + c.len - 1) ELSE Replacement]))

\* String::from_utf8 succeeds (fs::read_to_string returns Ok)
IsValidUtf8(s) ==
    \A i \in 1..Len(s) : ~Absorbed(s, i) => Utf8Chunk(s, i).valid

\* str::is_char_boundary(i), i a 0-based byte offset
IsCharBoundary(s, i) ==
    \/ i = 0
    \/ i = Len(s)
    \/ i < Len(s) /\ ~IsCont(s[i + 1])

\* The length of the White_Space character s starts with, 0 when it starts
\* with none (char::is_whitespace)
WhiteAt(s, i) ==
    LET b1 == SafeGet(s, i)
        b2 == SafeGet(s, i + 1)
        b3 == SafeGet(s, i + 2)
    IN  IF i > Len(s) THEN 0
        ELSE IF (b1 >= 9 /\ b1 <= 13) \/ b1 = 32 THEN 1
        ELSE IF b1 = 194 /\ (b2 = 133 \/ b2 = 160) /\ i + 1 <= Len(s) THEN 2
        ELSE IF i + 2 > Len(s) THEN 0
        ELSE IF b1 = 225 /\ b2 = 154 /\ b3 = 128 THEN 3
        ELSE IF b1 = 226 /\ b2 = 128
                /\ ((b3 >= 128 /\ b3 <= 138) \/ b3 = 168 \/ b3 = 169 \/ b3 = 175)
             THEN 3
        ELSE IF b1 = 226 /\ b2 = 129 /\ b3 = 159 THEN 3
        ELSE IF b1 = 227 /\ b2 = 128 /\ b3 = 128 THEN 3
        ELSE 0

RECURSIVE TrimStart(_)
TrimStart(s) ==
    LET w == WhiteAt(s, 1)
    IN  IF w = 0 THEN s ELSE TrimStart(SubSeq(s, w + 1, Len(s)))

\* whether the character that ends s is White_Space, and its length
WhiteEnd(s) ==
    IF s = <<>> THEN 0
    ELSE IF WhiteAt(s, Len(s)) = 1 THEN 1
    ELSE IF Len(s) >= 2 /\ WhiteAt(s, Len(s) - 1) = 2 THEN 2
    ELSE IF Len(s) >= 3 /\ WhiteAt(s, Len(s) - 2) = 3 THEN 3
    ELSE 0

RECURSIVE TrimEnd(_)
TrimEnd(s) ==
    LET w == WhiteEnd(s)
    IN  IF w = 0 THEN s ELSE TrimEnd(SubSeq(s, 1, Len(s) - w))

\* str::trim
Trim(s) == TrimEnd(TrimStart(s))

\* ------------------------------------------------------------------ digest

\* Sha1::new(); update(bytes); finalize(): the sha1 crate, modelled as a
\* deterministic function from byte strings to 20 bytes.  Three weighted
\* sums of the input are spread over the 20 bytes; the first six bytes hold
\* the three sums.
Weigh(bytes, a, b, modulus) ==
    LET n == Len(bytes)
        terms == Collect([i \in 1..n |->
                    ((bytes[i] + 1) * ((a * i * i + b * i + 1) % modulus)) % modulus])
    IN  (SumRange(terms, 1, n) + n) % modulus

Sha1(bytes) ==
    LET h1 == Weigh(bytes, 1, 3, 32749)
        h2 == Weigh(bytes, 5, 11, 32719)
        h3 == Weigh(bytes, 17, 29, 32713)
    IN  Collect([i \in 1..HashLen |->
            IF i = 1 THEN h1 % 256
            ELSE IF i = 2 THEN h1 \div 256
            ELSE IF i = 3 THEN h2 % 256
            ELSE IF i = 4 THEN h2 \div 256
            ELSE IF i = 5 THEN h3 % 256
            ELSE IF i = 6 THEN h3 \div 256
            ELSE (h1 * (i + 1) + h2 * (2 * i + 1) + h3 * (3 * i + 2) + 17 * i) % 256])

\* write!(s, "{:02x}", b)
HexChar(n) == IF n < 10 THEN 48 + n ELSE 87 + n

HexByte(b) == <<HexChar(b \div 16), HexChar(b % 16)>>

HexOf(bytes) ==
    Collect([i \in 1..(2 * Len(bytes)) |->
        IF i % 2 = 1 THEN HexChar(bytes[(i + 1) \div 2] \div 16)
        ELSE HexChar(bytes[i \div 2] % 16)])

\* impl Display for GitHash: 40 lower-case hexadecimal characters
ToHex(hash) == HexOf(hash)

\* GitHash::path: ".git/objects/<2 hex>/<38 hex>", as <<directory, filename>>
Path(hash) == <<HexOf(SubSeq(hash, 1, 1)), HexOf(SubSeq(hash, 2, HashLen))>>

\* GitHash::dir_path: ".git/objects/<2 hex>"
DirPath(hash) == HexOf(SubSeq(hash, 1, 1))

\* hex::decode's value of one character, -1 for a character that is no
\* hexadecimal digit
HexVal(c) ==
    IF c >= 48 /\ c <= 57 THEN c - 48
    ELSE IF c >= 97 /\ c <= 102 THEN c - 87
    ELSE IF c >= 65 /\ c <= 70 THEN c - 55
    ELSE -1

\* hex::decode: Err for an odd length or a character that is no digit
HexDecode(s) ==
    IF Len(s) % 2 /= 0 \/ \E i \in 1..Len(s) : HexVal(s[i]) < 0
    THEN [ok |-> FALSE, bytes |-> <<>>]
    ELSE [ok |-> TRUE,
          bytes |-> Collect([i \in 1..(Len(s) \div 2) |->
                        16 * HexVal(s[2 * i - 1]) + HexVal(s[2 * i])])]

\* GitHash::from_str.  "err" is the Err the function returns; "panic" is
\* the unwrap of hex::decode's Err (or the expect of try_into's), which
\* ends the process.
FromStr(s) ==
    IF Len(s) /= HexLen THEN [status |-> "err", hash |-> <<>>]
    ELSE LET d == HexDecode(s)
         IN  IF ~d.ok \/ Len(d.bytes) /= HashLen
             THEN [status |-> "panic", hash |-> <<>>]
             ELSE [status |-> "ok", hash |-> d.bytes]

\* ------------------------------------------------------------- compression

\* Adler-32 of the data, as its four bytes (big-endian): a is 1 plus the sum
\* of the bytes, b the sum of the values a takes, both modulo 65521
Adler32(s) ==
    LET n == Len(s)
        a == (1 + SumRange(s, 1, n)) % 65521
        b == (n + SumRange(Collect([i \in 1..n |-> s[i] * (n - i + 1)]), 1, n)) % 65521
    IN  <<b \div 256, b % 256, a \div 256, a % 256>>

\* ZlibEncoder::new(.., Compression::default()); write_all; finish: a zlib
\* stream of the data.  The stream modelled is the one with a single stored
\* block: the two header bytes, the block header with the length and its
\* complement, the data, and the Adler-32 checksum.
ZlibEncode(data) ==
    LET n == Len(data)
    IN  <<120, 156, 1, n % 256, n \div 256, 255 - (n % 256), 255 - (n \div 256)>>
        \o data \o Adler32(data)

\* ZlibDecoder::new(..).read_to_end: the data, or Err for bytes that are no
\* complete zlib stream (bad header, truncated block, wrong checksum)
ZlibDecode(file) ==
    LET n == file[4] + 256 * file[5]
        data == SubSeq(file, 8, 7 + n)
    IN  IF Len(file) < 11 THEN [ok |-> FALSE, data |-> <<>>]
        ELSE IF file[1] /= 120 \/ file[2] /= 156 \/ file[3] /= 1
                \/ file[6] /= 255 - file[4] \/ file[7] /= 255 - file[5]
             THEN [ok |-> FALSE, data |-> <<>>]
        ELSE IF Len(file) /= n + 11 THEN [ok |-> FALSE, data |-> <<>>]
        ELSE IF SubSeq(file, 8 + n, 11 + n) /= Adler32(data)
             THEN [ok |-> FALSE, data |-> <<>>]
        ELSE [ok |-> TRUE, data |-> data]

\* ----------------------------------------------------------------- objects

\* Blob::header: format!("blob {}\0", length)
BlobHeader(length) == StrBlob \o SP \o DecBytes(length) \o NUL

\* Blob::from_contents: the digest is that of header + contents
BlobFromContents(contents) ==
    [hash |-> Sha1(BlobHeader(Len(contents)) \o contents),
     length |-> Len(contents),
     contents |-> contents]

\* Blob::as_bytes
BlobAsBytes(blob) == BlobHeader(blob.length) \o blob.contents

\* Tree::body_from_entries: "<mode> <name>\0" and the 20 raw bytes of the
\* digest, entry after entry.  The digest is pushed with
\* str::from_utf8_unchecked, which is undefined behaviour for bytes that
\* are no UTF-8: see Unchecked for the outcomes.  These are the bytes where
\* push_str copies them as they are.
BodyFromEntries(entries) ==
    Concat(Collect([i \in 1..Len(entries) |->
              entries[i].mode \o SP \o entries[i].name \o NUL \o entries[i].hash]))

\* Tree::contents_from_entries: format!("tree {}\0{}", body.len(), body)
ContentsFromEntries(entries) ==
    LET body == BodyFromEntries(entries)
    IN  StrTree \o SP \o DecBytes(Len(body)) \o NUL \o body

\* What str::from_utf8_unchecked of a digest that is no UTF-8 leads to: the
\* bytes are "copied" as they are by push_str, or the process is "aborted"
\* (a build that checks the str it is handed).
Unchecked == {"copied", "aborted"}

\* the undefined behaviour is met: a digest among the entries is no UTF-8
MeetsUnchecked(entries) ==
    \E i \in 1..Len(entries) : ~IsValidUtf8(entries[i].hash)

\* Tree::from_entries
TreeFromEntries(entries) ==
    [hash |-> Sha1(ContentsFromEntries(entries)), entries |-> entries]

\* Tree::contents
TreeContents(tree) == ContentsFromEntries(tree.entries)

\* ------------------------------------------------------- working directory

\* A file is [kind |-> "file", contents |-> bytes]; a directory is
\* [kind |-> "dir", children |-> a function from names to files and
\* directories].

File(contents) == [kind |-> "file", contents |-> contents]
Dir(children)  == [kind |-> "dir", children |-> children]

\* fs::read_dir(path).collect(): the children of the directory in the order
\* the file system enumerates them: that of enum, a sequence of names
ReadDir(children, enum) == SelectSeq(enum, LAMBDA n : n \in DOMAIN children)

\* the sequence with x put before the first element that is greater
RECURSIVE InsertByName(_, _)
InsertByName(sorted, x) ==
    IF sorted = <<>> THEN <<x>>
    ELSE IF BytesLess(x, sorted[1]) THEN <<x>> \o sorted
    ELSE <<sorted[1]>> \o InsertByName(Tail(sorted), x)

\* the names as they were enumerated, unsorted
Unsorted(names) == names

\* sort_by(|a, b| a.file_name().cmp(b.file_name())): ascending by name
RECURSIVE SortByName(_)
SortByName(names) ==
    IF names = <<>> THEN <<>>
    ELSE InsertByName(SortByName(SubSeq(names, 1, Len(names) - 1)),
                      names[Len(names)])

\* .filter(|entry| entry.file_name() != ".git")
FilterDotGit(names) == SelectSeq(names, LAMBDA n : n /= DotGit)

\* Tree::tree_from_directory: [ok, hash, entries]; ~ok is the panic of
\* fs::read_to_string(path).unwrap() on a file that is no UTF-8, or the
\* process aborted where ub, the outcome of from_utf8_unchecked, is so.
\* Nothing is written to the object store here.
RECURSIVE TreeFromDirectory(_, _, _)

\* if file_type.is_dir(): the entry of the tree built of the directory
EntryOfTree(name, tree) ==
    [ok |-> tree.ok,
     entry |-> [mode |-> ModeDir, hash |-> tree.hash, name |-> name]]

\* one turn of its loop: [ok, entry] for the child of that name
EntryFor(name, node, enum, ub) ==
    IF node.kind = "dir"
    THEN EntryOfTree(name, TreeFromDirectory(node.children, enum, ub))
    ELSE IF ~IsValidUtf8(node.contents)
    THEN [ok |-> FALSE,
          entry |-> [mode |-> ModeFile, hash |-> <<>>, name |-> name]]
    ELSE [ok |-> TRUE,
          entry |-> [mode |-> ModeFile,
                     hash |-> BlobFromContents(node.contents).hash,
                     name |-> name]]

\* Self::from_entries(entries) once every turn of the loop is through; the
\* unwrap that panics in one turn ends the whole build
TreeOfTurns(turns, ub) ==
    IF \E i \in 1..Len(turns) : ~turns[i].ok
    THEN [ok |-> FALSE, hash |-> <<>>, entries |-> <<>>]
    ELSE IF ub = "aborted"
            /\ MeetsUnchecked(Collect([i \in 1..Len(turns) |-> turns[i].entry]))
    THEN [ok |-> FALSE, hash |-> <<>>, entries |-> <<>>]
    ELSE [ok |-> TRUE] @@
         TreeFromEntries(Collect([i \in 1..Len(turns) |-> turns[i].entry]))

\* the loop over the children listed
TurnsOver(dir, listed, enum, ub) ==
    Collect([i \in 1..Len(listed) |->
                EntryFor(listed[i], dir[listed[i]], enum, ub)])

TreeFromDirectory(dir, enum, ub) ==
    TreeOfTurns(TurnsOver(dir, FilterDotGit(SortByName(ReadDir(dir, enum))),
                          enum, ub),
                ub)

\* ------------------------------------------------------------ object store

\* a store that holds the file written and no other
StoreOfOne(files, hash, bytes) == Path(hash) :> ZlibEncode(bytes)

\* fs::create_dir_all(hash.dir_path()); fs::write(hash.path(), compressed):
\* the files of .git/objects after writing the compressed bytes
StoreWrite(files, hash, bytes) == (Path(hash) :> ZlibEncode(bytes)) @@ files

\* BufReader over a byte slice: data, the number of bytes consumed (pos)
\* and the end of what the buffer holds (filled)
NewReader(data) == [data |-> data, pos |-> 0, filled |-> 0]

\* BufReader::fill_buf: an empty buffer is refilled from the source
FillBuf(r) ==
    IF r.pos >= r.filled
    THEN [r EXCEPT !.filled = Min(r.pos + BufCapacity, Len(r.data))]
    ELSE r

\* BufReader::buffer().len()
BufferLen(r) == r.filled - r.pos

\* BufRead::read_until(delim, &mut buf): [reader, bytes], the bytes up to
\* and including the delimiter, or up to the end of the source
RECURSIVE ReadUntil(_, _)
ReadUntil(r, delim) ==
    LET f == FillBuf(r)
        i == IndexOf(f.data, delim, f.pos + 1)
    IN  IF BufferLen(f) = 0 THEN [reader |-> f, bytes |-> <<>>]
        ELSE IF i /= 0 /\ i <= f.filled
        THEN [reader |-> [f EXCEPT !.pos = i],
              bytes |-> SubSeq(f.data, f.pos + 1, i)]
        ELSE LET rest == ReadUntil([f EXCEPT !.pos = f.filled], delim)
             IN  [reader |-> rest.reader,
                  bytes |-> SubSeq(f.data, f.pos + 1, f.filled) \o rest.bytes]

\* Read::read_exact(&mut buf) for a buf of n bytes: [ok, reader, bytes];
\* ~ok is Err(UnexpectedEof)
RECURSIVE ReadExact(_, _)
ReadExact(r, n) ==
    IF n = 0 THEN [ok |-> TRUE, reader |-> r, bytes |-> <<>>]
    ELSE LET f == FillBuf(r)
             k == Min(BufferLen(f), n)
         IN  IF k = 0 THEN [ok |-> FALSE, reader |-> f, bytes |-> <<>>]
             ELSE LET rest == ReadExact([f EXCEPT !.pos = f.pos + k], n - k)
                  IN  [ok |-> rest.ok, reader |-> rest.reader,
                       bytes |-> SubSeq(f.data, f.pos + 1, f.pos + k) \o rest.bytes]

\* The loop of Tree::from_tree_file, a step to an operator: [status,
\* entries]; "panic" is the unwrap of split_once(' ') on a description
\* without a space.
RECURSIVE ReadEntries(_, _)

\* if reader.buffer().len() < 20 { break; }
EntryPushed(r, entries) ==
    IF BufferLen(r) < HashLen THEN [status |-> "ok", entries |-> entries]
    ELSE ReadEntries(r, entries)

\* let (mode, name) = ...split_once(' ').unwrap(); entries.push(entry)
EntrySplit(pair, hash, entries) ==
    IF ~pair.some THEN [status |-> "panic", entries |-> <<>>]
    ELSE EntryPushed(hash.reader,
                     Append(entries, [mode |-> TrimEndNul(pair.left),
                                      hash |-> hash.bytes,
                                      name |-> TrimEndNul(pair.right)]))

\* if read_result.is_err() { break; }
\* String::from_utf8_lossy(&file_description).trim()
EntryHashed(file_description, hash, entries) ==
    IF ~hash.ok THEN [status |-> "ok", entries |-> entries]
    ELSE EntrySplit(SplitOnce(Trim(FromUtf8Lossy(file_description)), 32),
                    hash, entries)

\* reader.read_exact(&mut hash)
EntryDescribed(desc, entries) ==
    EntryHashed(desc.bytes, ReadExact(desc.reader, HashLen), entries)

\* reader.read_until(b'\0', &mut file_description)
ReadEntries(r, entries) == EntryDescribed(ReadUntil(r, 0), entries)

\* Tree { hash, entries } once the loop is through
TreeOfEntries(contents, read) ==
    [status |-> read.status, hash |-> Sha1(contents), entries |-> read.entries]

\* Tree::from_tree_file(contents): [status, hash, entries]
TreeFromTreeFile(contents) ==
    TreeOfEntries(contents,
                  ReadEntries(ReadUntil(NewReader(contents), 0).reader, <<>>))

\* load_git_object_from_hash, a step to an operator: [status, kind,
\* contents, entries]; "panic" is any of its unwraps, its slice out of
\* range, or its panic! for a kind that is neither blob nor tree
Panicked == [status |-> "panic", kind |-> "", contents |-> <<>>, entries |-> <<>>]

\* "tree" => GitObject::Tree(Tree::from_tree_file(&contents))
LoadTree(tree) ==
    IF tree.status = "panic" THEN Panicked
    ELSE [status |-> "ok", kind |-> "tree", contents |-> <<>>,
          entries |-> tree.entries]

\* "blob" => Blob::new(hash, length, split_contents[1][0..length].to_string())
LoadBlob(split_contents, length) ==
    IF Len(split_contents) < 2 THEN Panicked
    ELSE IF length > Len(split_contents[2])
            \/ ~IsCharBoundary(split_contents[2], length)
    THEN Panicked
    ELSE [status |-> "ok", kind |-> "blob",
          contents |-> Slice(split_contents[2], 0, length), entries |-> <<>>]

\* let length: usize = length.parse().unwrap(); match tipe
LoadOfKind(contents, split_contents, tipe, length) ==
    IF ~length.ok THEN Panicked
    ELSE IF tipe = StrBlob THEN LoadBlob(split_contents, length.value)
    ELSE IF tipe = StrTree THEN LoadTree(TreeFromTreeFile(contents))
    ELSE Panicked

\* .unwrap() of that split_once
LoadOfHeader(contents, split_contents, head) ==
    IF ~head.some THEN Panicked
    ELSE LoadOfKind(contents, split_contents, head.left, ParseUsize(head.right))

\* let (tipe, length) = split_contents[0].split_once(' ')
LoadOfSplit(contents, split_contents) ==
    LoadOfHeader(contents, split_contents, SplitOnce(split_contents[1], 32))

\* let split_contents = contents.split('\0').collect()
LoadOfContents(contents) == LoadOfSplit(contents, Split(contents, 0))

\* decompressed.read_to_end(&mut buf).unwrap(); String::from_utf8_lossy(&buf)
LoadOfFile(z) ==
    IF ~z.ok THEN Panicked ELSE LoadOfContents(FromUtf8Lossy(z.data))

\* let file = fs::read(hash.path()).unwrap()
LoadGitObjectFromHash(files, hash) ==
    IF Path(hash) \notin DOMAIN files THEN Panicked
    ELSE LoadOfFile(ZlibDecode(files[Path(hash)]))

\* ------------------------------------------------------------------ inputs

\* "a.txt", "b", "sub"
NameA   == <<97, 46, 116, 120, 116>>
NameB   == <<98>>
NameSub == <<115, 117, 98>>

\* "x", "a\0b" and the single byte 0xFF, which is no UTF-8
ContentX   == <<120>>
ContentNul == <<97, 0, 98>>
ContentBad == <<255>>

\* "init"
MessageInit == <<105, 110, 105, 116>>

\* the functions from a subset of names to values
FunctionsOver(names, values) == UNION {[S -> values] : S \in SUBSET names}

\* The working directories a behaviour starts in: a.txt, when there, is a
\* file; sub, when there, is a directory, empty or of the files a.txt and b.
RootFiles == {File(c) : c \in {ContentX, ContentNul, ContentBad}}
SubDirs   == {Dir(c) : c \in [{} -> {File(ContentX)}]
                             \cup [{NameA, NameB} -> {File(ContentX)}]}
WorkDirs  ==
    {w \in FunctionsOver({NameA, NameSub}, RootFiles \cup SubDirs) :
        /\ NameA \in DOMAIN w => w[NameA].kind = "file"
        /\ NameSub \in DOMAIN w => w[NameSub].kind = "dir"}

AllNames == {NameA, NameB, NameSub, DotGit}

\* The orders the file system may enumerate names in: b first and the other
\* names ascending, or b last and the other names descending.  "." (a.txt,
\* sub, .git) and sub (a.txt, b) are each listed in both their orders.
Enums ==
    {e \in [1..Cardinality(AllNames) -> AllNames] :
        /\ \A i, j \in DOMAIN e : i /= j => e[i] /= e[j]
        /\ \/ /\ e[1] = NameB
              /\ \A i, j \in DOMAIN e :
                     1 < i /\ i < j => BytesLess(e[i], e[j])
           \/ /\ e[Cardinality(AllNames)] = NameB
              /\ \A i, j \in DOMAIN e :
                     i < j /\ j < Cardinality(AllNames) => BytesLess(e[j], e[i])}

\* ------------------------------------------------------------------- state

VARIABLES
    workdir,      \* the children of the current directory, but for .git
    gitDir,       \* "absent", "bare" (.git/objects only) or "initialized"
    objectFiles,  \* the files of .git/objects: <<directory, filename>> -> bytes
    result        \* what the last command did

vars == <<workdir, gitDir, objectFiles, result>>

\* A command's outcome.  status is "ok", "usage" (clap reports a missing
\* argument or the Err of GitHash::from_str and exits) or "panic" (the
\* process panics); hash is the digest the command loaded or made; out is
\* what it printed; entries are those of the tree it loaded or built; wrote
\* is what its fs::write did: "created" a file, "replaced" one, or "none".
Outcome(cmd, flags, args, status, hash, out, entries, wrote) ==
    [cmd |-> cmd, flags |-> flags, args |-> args, status |-> status,
     hash |-> hash, out |-> out, entries |-> entries, wrote |-> wrote]

Failed(cmd, flags, args, status) ==
    Outcome(cmd, flags, args, status, <<>>, <<>>, <<>>, "none")

\* what fs::write(hash.path(), ..) does to the files
Wrote(files, hash) ==
    IF Path(hash) \in DOMAIN files THEN "replaced" ELSE "created"

\* the children of "." as fs::read_dir sees them
RootChildren ==
    IF gitDir = "absent" THEN workdir
    ELSE [n \in DOMAIN workdir \cup {DotGit} |->
            IF n = DotGit THEN Dir(<<>>) ELSE workdir[n]]

\* the file or directory at a path of the working directory, a sequence
\* of names; [kind |-> "missing"] when there is none
RECURSIVE Resolve(_, _)
Resolve(children, path) ==
    IF path = <<>> \/ path[1] \notin DOMAIN children THEN [kind |-> "missing"]
    ELSE IF Len(path) = 1 THEN children[path[1]]
    ELSE IF children[path[1]].kind /= "dir" THEN [kind |-> "missing"]
    ELSE Resolve(children[path[1]].children, Tail(path))

\* the paths hash-object is given: those of the working directory's files
\* and directories, and one of no file
PathArgs ==
    {<<n>> : n \in DOMAIN workdir \cup {NameB}}
    \cup {<<NameSub, n>> : n \in IF NameSub \in DOMAIN workdir
                                 THEN DOMAIN workdir[NameSub].children ELSE {}}

\* the digests of the objects in the store
StoredHashes == {HexDecode(p[1] \o p[2]).bytes : p \in DOMAIN objectFiles}

\* the digests a user has seen printed: those of the stored objects and of
\* the blobs hash-object prints without -w
KnownHashes ==
    StoredHashes
    \cup {BlobFromContents(workdir[n].contents).hash :
            n \in {m \in DOMAIN workdir :
                    workdir[m].kind = "file" /\ IsValidUtf8(workdir[m].contents)}}

\* the texts given for a GitHash argument: the digests known, a text of 39
\* characters and one of 40 that starts with 'g'
HashArgs ==
    {ToHex(h) : h \in KnownHashes}
    \cup {[i \in 1..(HexLen - 1) |-> 48],
          [i \in 1..HexLen |-> IF i = 1 THEN 103 ELSE 48]}

\* the decompressed bytes of a stored file; <<>> for a file that is no
\* zlib stream
Stored(files, hash) == ZlibDecode(files[Path(hash)]).data

\* the stored objects of a kind ("blob", "tree", "commit" as bytes)
OfKind(files, kind) ==
    {p \in DOMAIN files : SubSeq(ZlibDecode(files[p]).data, 1, Len(kind)) = kind}

Init ==
    /\ workdir \in WorkDirs
    /\ gitDir = "absent"
    /\ objectFiles = [p \in {} |-> <<>>]
    /\ result = Failed("none", {}, <<>>, "ok")

\* ---------------------------------------------------------------- commands

\* git_init
GitInit ==
    /\ UNCHANGED <<workdir, objectFiles>>
    /\ IF gitDir /= "absent"
       THEN /\ result' = Failed("init", {}, <<>>, "panic")
            /\ UNCHANGED gitDir
       ELSE /\ gitDir' = "initialized"
            /\ result' = Outcome("init", {}, <<>>, "ok", <<>>, <<>>, <<>>, "none")

\* fs::create_dir_all(hash.dir_path()) makes .git and .git/objects too
AfterCreateDirAll == IF gitDir = "absent" THEN "bare" ELSE gitDir

\* git_hash_object, once the blob is made: the digest is printed and, with
\* -w, the blob is stored
HashObjectOf(flags, path, blob) ==
    /\ result' = Outcome("hash-object", flags, path, "ok", blob.hash,
                         ToHex(blob.hash), <<>>,
                         IF "-w" \in flags THEN Wrote(objectFiles, blob.hash)
                         ELSE "none")
    /\ IF "-w" \in flags
       THEN /\ gitDir' = AfterCreateDirAll
            /\ objectFiles' = StoreWrite(objectFiles, blob.hash, BlobAsBytes(blob))
       ELSE UNCHANGED <<gitDir, objectFiles>>

\* git_hash_object, once the path is resolved
HashObject(flags, path, node) ==
    /\ UNCHANGED workdir
    /\ IF node.kind /= "file"
       THEN /\ result' = Failed("hash-object", flags, path, "panic")
            /\ UNCHANGED <<gitDir, objectFiles>>
       ELSE IF ~IsValidUtf8(node.contents)
       THEN /\ result' = Failed("hash-object", flags, path, "panic")
            /\ UNCHANGED <<gitDir, objectFiles>>
       ELSE HashObjectOf(flags, path, BlobFromContents(node.contents))

\* git_hash_object: fs::read_to_string(&args.path).unwrap() panics for a
\* path that is no file and for a file that is no UTF-8
GitHashObject(write, path) ==
    HashObject(IF write THEN {"-w"} ELSE {}, path, Resolve(workdir, path))

\* git_cat_file, once the object is loaded
CatFileOf(object, hash, loaded) ==
    IF loaded.status = "panic" \/ loaded.kind = "tree"
    THEN Outcome("cat-file", {}, <<object>>, "panic", hash, <<>>, <<>>, "none")
    ELSE Outcome("cat-file", {}, <<object>>, "ok", hash, loaded.contents, <<>>,
                 "none")

\* git_cat_file, once clap has parsed the object
CatFile(object, parsed) ==
    IF parsed.status = "err" THEN Failed("cat-file", {}, <<object>>, "usage")
    ELSE IF parsed.status = "panic" THEN Failed("cat-file", {}, <<object>>, "panic")
    ELSE CatFileOf(object, parsed.hash,
                   LoadGitObjectFromHash(objectFiles, parsed.hash))

\* git_cat_file (its -p flag is not read): a blob's contents are printed,
\* a tree runs into todo!()
GitCatFile(object) ==
    /\ UNCHANGED <<workdir, gitDir, objectFiles>>
    /\ result' = CatFile(object, FromStr(object))

\* println!("{}", entry.name) for every entry
NameLines(entries) ==
    Concat(Collect([i \in 1..Len(entries) |-> entries[i].name \o LF]))

\* git_ls_tree, once the object is loaded
LsTreeOf(object, hash, loaded) ==
    IF loaded.status = "panic" \/ loaded.kind = "blob"
    THEN Outcome("ls-tree", {}, <<object>>, "panic", hash, <<>>, <<>>, "none")
    ELSE Outcome("ls-tree", {}, <<object>>, "ok", hash,
                 NameLines(loaded.entries), loaded.entries, "none")

\* git_ls_tree, once clap has parsed the object
LsTree(object, parsed) ==
    IF parsed.status = "err" THEN Failed("ls-tree", {}, <<object>>, "usage")
    ELSE IF parsed.status = "panic" THEN Failed("ls-tree", {}, <<object>>, "panic")
    ELSE LsTreeOf(object, parsed.hash,
                  LoadGitObjectFromHash(objectFiles, parsed.hash))

\* git_ls_tree (its --name-only flag is not read): the names of a tree's
\* entries are printed, a blob panics
GitLsTree(object) ==
    /\ UNCHANGED <<workdir, gitDir, objectFiles>>
    /\ result' = LsTree(object, FromStr(object))

\* git_write_tree, once the tree is built
WriteTree(tree) ==
    /\ UNCHANGED workdir
    /\ IF ~tree.ok
       THEN /\ result' = Failed("write-tree", {}, <<>>, "panic")
            /\ UNCHANGED <<gitDir, objectFiles>>
       ELSE /\ result' = Outcome("write-tree", {}, <<>>, "ok", tree.hash,
                                 ToHex(tree.hash) \o LF, tree.entries,
                                 Wrote(objectFiles, tree.hash))
            /\ gitDir' = AfterCreateDirAll
            /\ objectFiles' =
                   StoreWrite(objectFiles, tree.hash, TreeContents(tree))

\* git_write_tree, the file system enumerating names in the order enum and
\* from_utf8_unchecked coming out as ub
GitWriteTree(enum, ub) == WriteTree(TreeFromDirectory(RootChildren, enum, ub))

\* the author and committer of git_commit_tree:
\* "Harry Smith <test@test.org> <secs> +0000", where secs is
\* Instant::now().elapsed().as_secs(), the time since the instant just
\* taken: 0
Author ==
    AuthorName \o SP \o <<60>> \o AuthorEmail \o <<62>> \o SP \o DecBytes(0)
    \o SP \o TimeZone

\* the contents git_commit_tree formats
CommitContents(tree, parent, message) ==
    StrTree \o SP \o ToHex(tree) \o LF
    \o StrParent \o SP \o ToHex(parent) \o LF
    \o StrAuthor \o SP \o Author \o LF
    \o StrCommitter \o SP \o Author \o LF
    \o LF \o message \o LF

\* the digest git_commit_tree gives the commit
CommitHash(contents) == Sha1(contents)

\* git_commit_tree, once the digest is made: the commit is stored under it
\* and it is printed
CommitTreeAs(flags, args, contents, hash) ==
    /\ Path(hash) \in DOMAIN objectFiles
       \/ Cardinality(OfKind(objectFiles, StrCommit)) < MaxCommits
    /\ result' = Outcome("commit-tree", flags, args, "ok", hash,
                         ToHex(hash) \o LF, <<>>, Wrote(objectFiles, hash))
    /\ gitDir' = AfterCreateDirAll
    /\ objectFiles' =
           StoreWrite(objectFiles, hash,
                      StrCommit \o SP \o DecBytes(Len(contents)) \o NUL \o contents)

\* git_commit_tree, once the contents are formatted
CommitTree(flags, args, contents) ==
    CommitTreeAs(flags, args, contents, CommitHash(contents))

\* git_commit_tree, once clap has parsed the tree and the parent
CommitTreeOf(flags, args, tree, parent) ==
    IF tree.status /= "ok" \/ parent.status /= "ok"
    THEN /\ result' = Failed("commit-tree", flags, args,
                             IF "panic" \in {tree.status, parent.status}
                             THEN "panic" ELSE "usage")
         /\ UNCHANGED <<gitDir, objectFiles>>
    ELSE CommitTree(flags, args, CommitContents(tree.hash, parent.hash, args[3]))

\* git_commit_tree.  CommitTreeArgs declares tree, -p parent and -m
\* message without a default: a command line without -p is refused by clap.
\* args is <<tree, message>> or, with -p, <<tree, parent, message>>.
GitCommitTree(args) ==
    /\ UNCHANGED workdir
    /\ IF Len(args) /= 3
       THEN /\ result' = Failed("commit-tree", {"-m"}, args, "usage")
            /\ UNCHANGED <<gitDir, objectFiles>>
       ELSE CommitTreeOf({"-p", "-m"}, args, FromStr(args[1]), FromStr(args[2]))

\* the arguments commit-tree is given: the digest of a stored tree, the
\* digest of a stored object as the parent or no parent, and a message
CommitArgs ==
    LET trees == {p[1] \o p[2] : p \in OfKind(objectFiles, StrTree)}
    IN  {<<t, MessageInit>> : t \in trees}
        \cup {<<t, p[1] \o p[2], MessageInit>> : t \in trees, p \in DOMAIN objectFiles}

Next ==
    \/ GitInit
    \/ \E write \in BOOLEAN, path \in PathArgs : GitHashObject(write, path)
    \/ \E object \in HashArgs : GitCatFile(object)
    \/ \E object \in HashArgs : GitLsTree(object)
    \/ \E enum \in Enums, ub \in Unchecked : GitWriteTree(enum, ub)
    \/ \E args \in CommitArgs : GitCommitTree(args)

Spec == Init /\ [][Next]_vars

\* ------------------------------------------------------------- properties

\* the bytes are "<kind> <payload-length>\0<payload>" of one of the kinds
Canonical(bytes) ==
    \E k \in 1..Len(bytes) :
        /\ bytes[k] = 0
        /\ \E kind \in {StrBlob, StrTree, StrCommit} :
               SubSeq(bytes, 1, k - 1) = kind \o SP \o DecBytes(Len(bytes) - k)

\* the payload of encoded bytes: what follows the first 0x00
PayloadOf(bytes) == SubSeq(bytes, IndexOf(bytes, 0, 1) + 1, Len(bytes))

\* text has a line that starts with prefix
HasLine(text, prefix) ==
    \E i \in 0..(Len(text) - Len(prefix)) :
        /\ SubSeq(text, i + 1, i + Len(prefix)) = prefix
        /\ i = 0 \/ text[i] = 10

\* text ends with suffix
EndsWith(text, suffix) ==
    /\ Len(suffix) <= Len(text)
    /\ SubSeq(text, Len(text) - Len(suffix) + 1, Len(text)) = suffix

\* the names of the entries ascend byte-wise
SortedByName(entries) ==
    \A i, j \in 1..Len(entries) :
        i < j => BytesLess(entries[i].name, entries[j].name)

\* the last command was cmd and it came through
Did(cmd) == result.cmd = cmd /\ result.status = "ok"

\* the last command was given a digest to load, and parsed it
Loading == result.cmd \in {"cat-file", "ls-tree"} /\ Len(result.hash) = HashLen

\* C1: every file of the object store decompresses to canonical encoded
\* bytes, "<kind> <payload-length>\0<payload>", whose digest names the file,
\* whether hash-object -w, write-tree or commit-tree wrote it.
C1_StoreIntegrity ==
    \A p \in DOMAIN objectFiles :
        /\ ZlibDecode(objectFiles[p]).ok
        /\ Canonical(ZlibDecode(objectFiles[p]).data)
        /\ Path(Sha1(ZlibDecode(objectFiles[p]).data)) = p

\* C2: when write-tree returns the root digest, the root tree and every
\* digest its entries name have a file in the object store.
C2_ChildrenPersisted ==
    Did("write-tree") =>
        /\ Path(result.hash) \in DOMAIN objectFiles
        /\ \A i \in 1..Len(result.entries) :
               Path(result.entries[i].hash) \in DOMAIN objectFiles

\* C3: commit-tree given a tree digest, no parent and a message comes
\* through, and the commit it stores has the line "tree <hex>", no line
\* "parent", and the message and a line feed at its end.
C3_CommitWithoutParent ==
    (result.cmd = "commit-tree" /\ "-p" \notin result.flags) =>
        /\ result.status = "ok"
        /\ Path(result.hash) \in DOMAIN objectFiles
        /\ HasLine(PayloadOf(Stored(objectFiles, result.hash)),
                   StrTree \o SP \o result.args[1] \o LF)
        /\ ~HasLine(PayloadOf(Stored(objectFiles, result.hash)), StrParent)
        /\ EndsWith(PayloadOf(Stored(objectFiles, result.hash)),
                    result.args[2] \o LF)

\* C4: a blob stored and then loaded by its digest comes back with the
\* content it was made of, whatever the bytes of the content.
C4_BlobRoundTrip ==
    \A c \in {ContentX, ContentNul, ContentBad} :
        (/\ Loading
         /\ result.cmd = "cat-file"
         /\ result.hash = BlobFromContents(c).hash
         /\ Path(result.hash) \in DOMAIN objectFiles)
        => result.status = "ok" /\ result.out = c

\* C5: the entries of the tree write-tree builds, and of the trees of its
\* subdirectories, ascend byte-wise by name under every order the file
\* system may enumerate names in, and every such order gives the digest
\* and the entries write-tree returned.
C5_CanonicalOrder ==
    Did("write-tree") =>
        /\ SortedByName(result.entries)
        /\ \A enum \in Enums :
               /\ TreeFromDirectory(RootChildren, enum, "copied").hash = result.hash
               /\ TreeFromDirectory(RootChildren, enum, "copied").entries = result.entries
               /\ \A n \in DOMAIN workdir :
                      workdir[n].kind = "dir" =>
                          SortedByName(
                              TreeFromDirectory(workdir[n].children, enum,
                                                "copied").entries)

\* a tree of two entries is built of a directory whose subdirectory has two
\* children
C5_Witness ==
    /\ Did("write-tree")
    /\ Len(result.entries) = 2
    /\ NameSub \in DOMAIN workdir
    /\ Cardinality(DOMAIN workdir[NameSub].children) = 2

\* C6: loading a digest that has no file in the object store does not end
\* the process: a failure is returned.
C6_AbsentObjectFails ==
    (Loading /\ Path(result.hash) \notin DOMAIN objectFiles)
        => result.status /= "panic"

\* C7: a text that is not 40 hexadecimal characters, of whatever length,
\* is answered with the failure GitHash::from_str returns: the process does
\* not panic.
C7_MalformedDigestFails ==
    (/\ result.cmd \in {"cat-file", "ls-tree"}
     /\ \/ Len(result.args[1]) /= HexLen
        \/ \E i \in 1..Len(result.args[1]) : HexVal(result.args[1][i]) < 0)
    => result.status = "usage"

\* C8: a file of the object store is never deleted and its decompressed
\* content never changes; a write that finds its file there comes through
\* and leaves the store with the files it had.
C8_ObjectsImmutable ==
    [][/\ \A p \in DOMAIN objectFiles :
              /\ p \in DOMAIN objectFiles'
              /\ \/ objectFiles'[p] = objectFiles[p]
                 \/ ZlibDecode(objectFiles'[p]) = ZlibDecode(objectFiles[p])
       /\ result'.wrote = "replaced" =>
              /\ result'.status = "ok"
              /\ DOMAIN objectFiles' = DOMAIN objectFiles]_vars

\* a write found its file there, in a store of other objects too
C8_Witness ==
    /\ result.wrote = "replaced"
    /\ Cardinality(DOMAIN objectFiles) >= 2

\* C9: the tree of a directory of the file a.txt, of content "x", and the
\* empty directory sub has one entry: that of a.txt with the blob's digest.
C9_EmptySubdirSkipped ==
    (/\ Did("write-tree")
     /\ DOMAIN workdir = {NameA, NameSub}
     /\ workdir[NameA] = File(ContentX)
     /\ DOMAIN workdir[NameSub].children = {})
    => result.entries = <<[mode |-> ModeFile,
                           hash |-> BlobFromContents(ContentX).hash,
                           name |-> NameA]>>

\* C10: ls-tree of the stored tree of the working directory loads the
\* entries the tree was encoded of, in their order, each with the mode,
\* the name and the 20 bytes of the digest it was written with.
C10_TreeEntriesDecoded ==
    \A enum \in Enums :
        (/\ Loading
         /\ result.cmd = "ls-tree"
         /\ Path(result.hash) \in DOMAIN objectFiles
         /\ TreeFromDirectory(RootChildren, enum, "copied").ok
         /\ result.hash = TreeFromDirectory(RootChildren, enum, "copied").hash)
        => /\ result.status = "ok"
           /\ result.entries = TreeFromDirectory(RootChildren, enum, "copied").entries

=============================================================================
